---------------------------- MODULE Spec2Model ----------------------------
(***************************************************************************)
(* HifdhApp player screen (src/app/_layout.js): the subtitle helpers       *)
(* normalizeTimeString, timeToMs, parseTimingLine, parseSrt, findCueIndex  *)
(* and the effects of PlayerInner that use them.                           *)
(*                                                                         *)
(* A JavaScript string is a sequence of characters.  An ASCII character is *)
(* the one-character string itself ("0", ":", "\n"); a character outside   *)
(* ASCII is named by its code point ("U+2014" is the em dash).             *)
(***************************************************************************)
EXTENDS Integers, Sequences, FiniteSets, TLC

VARIABLES
    pc,             \* position of the run inside the specification at hand
    raw,            \* normalizeTimeString: the argument
    norm,           \* normalizeTimeString(raw)
    norm2,          \* normalizeTimeString(norm)
    doc,            \* the subtitle document, block by block, before it is rendered to text
    srtText,        \* PlayerInner: useState srtText / parseSrt: the argument
    cues,           \* PlayerInner: useMemo cues / parseSrt(srtText) / the argument of findCueIndex
    replaced,       \* the block and the arrow variant of the document's rewritten copy
    replacedText,   \* the document with that block's timing line rewritten
    cuesReplaced,   \* parseSrt(replacedText)
    positionMs,     \* PlayerInner: positionMs / the argument of findCueIndex
    result,         \* findCueIndex(cues, positionMs), once called
    activeIndex,    \* PlayerInner: useState activeIndex
    repeatLine,     \* PlayerInner: useState repeatLine
    lastRepeatRef,  \* PlayerInner: lastRepeatRef.current
    dirty,          \* PlayerInner: a state update is waiting for its render
    captured,       \* PlayerInner: the values of the last render, while its effects wait to run
    deps,           \* PlayerInner: the dependency values of the effects that ran last
    seek,           \* the last repeat seek-back the position effect issued, as it saw it
    history,        \* what happened since that seek-back
    entry,          \* PlayerInner: the entry prop, named by its subtitle asset entry.srt
    mounted,        \* PlayerInner is mounted
    loads,          \* the runs of the subtitle load effect, each with its async function
    srtError,       \* PlayerInner: useState srtError
    written         \* the last write of srtText or srtError by a load, and the load as it was

vars == <<pc, raw, norm, norm2, doc, srtText, cues, replaced, replacedText, cuesReplaced, positionMs, result,
          activeIndex, repeatLine, lastRepeatRef, dirty, captured, deps, seek, history,
          entry, mounted, loads, srtError, written>>

\* The state of PlayerInner that only its renders, its effects and its subtitle load change.
loadVars == <<captured, entry, mounted, loads, srtError, written>>

\* null where a string is expected, null where a cue sequence is expected, and the
\* absence of a record.
NULL == <<"null">>
NullCues == <<[null |-> TRUE]>>
Nothing == [null |-> TRUE]

(***************************************************************************)
(* Bounds of the model.                                                    *)
(***************************************************************************)
MaxRawLen == 4
MaxBlocks == 2
MaxCues == 3
MaxMs == 6
MaxAnyMs == 1

(***************************************************************************)
(* Characters.                                                             *)
(***************************************************************************)
Digits == {"0", "1", "2", "3", "4", "5", "6", "7", "8", "9"}

DigitValue(c) ==
    CASE c = "0" -> 0 [] c = "1" -> 1 [] c = "2" -> 2 [] c = "3" -> 3 [] c = "4" -> 4
      [] c = "5" -> 5 [] c = "6" -> 6 [] c = "7" -> 7 [] c = "8" -> 8 [] c = "9" -> 9

DigitChar(n) ==
    CASE n = 0 -> "0" [] n = 1 -> "1" [] n = 2 -> "2" [] n = 3 -> "3" [] n = 4 -> "4"
      [] n = 5 -> "5" [] n = 6 -> "6" [] n = 7 -> "7" [] n = 8 -> "8" [] n = 9 -> "9"

BIDI_MARKS_RE ==
    {"U+200E", "U+200F", "U+202A", "U+202B", "U+202C", "U+202D", "U+202E",
     "U+2066", "U+2067", "U+2068", "U+2069"}

ZERO_WIDTH_RE == {"U+200B", "U+200C", "U+200D", "U+2060", "U+FEFF"}

WEIRD_SPACES_RE ==
    {"U+00A0", "U+1680", "U+180E", "U+2000", "U+2001", "U+2002", "U+2003", "U+2004",
     "U+2005", "U+2006", "U+2007", "U+2008", "U+2009", "U+200A", "U+202F", "U+205F",
     "U+3000"}

\* The characters JavaScript's \s matches, which are also those trim() strips.
JsWhitespace ==
    {" ", "\t", "\n", "U+000B", "\f", "\r", "U+00A0", "U+1680", "U+2000", "U+2001",
     "U+2002", "U+2003", "U+2004", "U+2005", "U+2006", "U+2007", "U+2008", "U+2009",
     "U+200A", "U+2028", "U+2029", "U+202F", "U+205F", "U+3000", "U+FEFF"}

ArabicIndicDigits ==
    {"U+0660", "U+0661", "U+0662", "U+0663", "U+0664", "U+0665", "U+0666", "U+0667",
     "U+0668", "U+0669"}

EasternArabicIndicDigits ==
    {"U+06F0", "U+06F1", "U+06F2", "U+06F3", "U+06F4", "U+06F5", "U+06F6", "U+06F7",
     "U+06F8", "U+06F9"}

\* d.charCodeAt(0) - 0x0660, and - 0x06f0: the last hexadecimal digit of the code point.
CodePointOffset(c) ==
    CASE c \in {"U+0660", "U+06F0"} -> 0 [] c \in {"U+0661", "U+06F1"} -> 1
      [] c \in {"U+0662", "U+06F2"} -> 2 [] c \in {"U+0663", "U+06F3"} -> 3
      [] c \in {"U+0664", "U+06F4"} -> 4 [] c \in {"U+0665", "U+06F5"} -> 5
      [] c \in {"U+0666", "U+06F6"} -> 6 [] c \in {"U+0667", "U+06F7"} -> 7
      [] c \in {"U+0668", "U+06F8"} -> 8 [] c \in {"U+0669", "U+06F9"} -> 9

(***************************************************************************)
(* String primitives of JavaScript, on sequences of characters.            *)
(***************************************************************************)
\* The one element of a one-element set.  An expression written
\*     Only({ e : x \in {v} })
\* is e with x standing for v, v being computed once however often e uses x.
Only(S) == CHOOSE x \in S : TRUE

\* s.replace(/[class]/g, ""): every character of the class removed.
RemoveAll(s, class) == SelectSeq(s, LAMBDA c : c \notin class)

\* s.replace(/[class]/g, to): every character of the class replaced by one character.
ReplaceAll(s0, class, to) ==
    Only({ [i \in 1..Len(s) |-> IF s[i] \in class THEN to ELSE s[i]] : s \in {s0} })

\* s.replace(/[class]/g, (d) => String(d.charCodeAt(0) - base)), base the code of
\* the zero of the class.
ReplaceDigits(s0, class) ==
    Only({ [i \in 1..Len(s) |-> IF s[i] \in class THEN DigitChar(CodePointOffset(s[i])) ELSE s[i]]
           : s \in {s0} })

\* The positions of s that hold no whitespace.
Inked(s) == {i \in 1..Len(s) : s[i] \notin JsWhitespace}

\* s.trimEnd()
trimEnd(s0) ==
    Only({ IF ink = {} THEN <<>> ELSE SubSeq(s0, 1, CHOOSE i \in ink : \A other \in ink : other <= i)
           : ink \in {Only({ Inked(s) : s \in {s0} })} })

\* s.trimStart()
trimStart(s0) ==
    Only({ IF ink = {} THEN <<>> ELSE SubSeq(s0, CHOOSE i \in ink : \A other \in ink : i <= other, Len(s0))
           : ink \in {Only({ Inked(s) : s \in {s0} })} })

\* s.trim()
trim(s) == trimEnd(trimStart(s))

\* s.replace(/\s+/g, "") without its g flag: the first run of whitespace only.
StripFirstWhitespaceRun(s0) ==
    Only({ LET white == {i \in 1..Len(s) : s[i] \in JsWhitespace}
           IN  IF white = {} THEN s
               ELSE LET first == CHOOSE i \in white : \A other \in white : i <= other
                    IN  SubSeq(s, 1, first - 1) \o trimStart(SubSeq(s, first, Len(s)))
           : s \in {s0} })

\* s.replace(/\s+/g, "")
StripWhitespace(s) == RemoveAll(s, JsWhitespace)

(***************************************************************************)
(* normalizeTimeString                                                     *)
(***************************************************************************)
normalizeTimeString(rawArg) ==
    IF rawArg = NULL THEN <<>>
    ELSE
    LET s0 == rawArg
        \* remove invisible marks
        s1 == RemoveAll(RemoveAll(s0, BIDI_MARKS_RE), ZERO_WIDTH_RE)
        \* weird spaces to regular spaces
        s2 == ReplaceAll(s1, WEIRD_SPACES_RE, " ")
        \* Arabic punctuation and separators to their ASCII equivalents
        s3a == ReplaceAll(s2, {"U+060C"}, ",")
        s3b == ReplaceAll(s3a, {"U+066B"}, ",")
        s3c == RemoveAll(s3b, {"U+066C"})
        s3d == ReplaceAll(s3c, {"U+FF0C"}, ",")
        s3e == ReplaceAll(s3d, {"U+FE10"}, ",")
        s3f == ReplaceAll(s3e, {"U+FE11"}, ",")
        s3g == ReplaceAll(s3f, {"U+FF1A"}, ":")
        s3h == ReplaceAll(s3g, {"U+FE13"}, ":")
        s3i == ReplaceAll(s3h, {"U+FE55"}, ":")
        s3 == ReplaceAll(s3i, {"U+2236"}, ":")
        \* Arabic-Indic digits, then Eastern Arabic-Indic digits
        s4 == ReplaceDigits(s3, ArabicIndicDigits)
        s5 == ReplaceDigits(s4, EasternArabicIndicDigits)
    IN  trim(StripWhitespace(s5))

(***************************************************************************)
(* Regular-expression pieces shared by timeToMs and parseTimingLine.       *)
(***************************************************************************)
\* The character at position i (from 1), or "" past either end.
CharAt(s, i) == IF i \in 1..Len(s) THEN s[i] ELSE ""

\* s, from position i, starts with p.
StartsWithAt(s, i, p) == \A k \in 1..Len(p) : CharAt(s, i + k - 1) = p[k]

\* s.includes(p)
includes(s, p) == \E i \in 1..(Len(s) - Len(p) + 1) : StartsWithAt(s, i, p)

\* The length of the run of \d characters that starts at position i.
RECURSIVE DigitRunLen(_, _)
DigitRunLen(s, i) == IF CharAt(s, i) \in Digits THEN 1 + DigitRunLen(s, i + 1) ELSE 0

StandardArrow == <<"-", "-", ">">>
EmDashArrow == <<"U+2014", ">">>
EnDashArrow == <<"U+2013", ">">>

\* (?:-->|U+2014 >|U+2013 >) at position i: the length matched, 0 for no match.
ArrowLenAtStandardOnly(s, i) == IF StartsWithAt(s, i, StandardArrow) THEN Len(StandardArrow) ELSE 0

ArrowLenAt(s, i) ==
    IF StartsWithAt(s, i, StandardArrow) THEN Len(StandardArrow)
    ELSE IF StartsWithAt(s, i, EmDashArrow) THEN Len(EmDashArrow)
    ELSE IF StartsWithAt(s, i, EnDashArrow) THEN Len(EnDashArrow)
    ELSE 0

\* /-->|U+2014 >|U+2013 >/.test(s)
HasAnyArrow(s) == \E i \in 1..Len(s) : ArrowLenAt(s, i) > 0

\* (\d+):(\d{2}):(\d{2})[.,] at position i: the position where the fraction starts,
\* 0 for no match.  \d+ is greedy and must be followed by a colon, so it takes the
\* whole run of digits.
FractionStartAt(s, i) ==
    LET h == DigitRunLen(s, i)
        j == i + h
    IN  IF /\ h >= 1
           /\ CharAt(s, j) = ":"
           /\ CharAt(s, j + 1) \in Digits /\ CharAt(s, j + 2) \in Digits
           /\ CharAt(s, j + 3) = ":"
           /\ CharAt(s, j + 4) \in Digits /\ CharAt(s, j + 5) \in Digits
           /\ CharAt(s, j + 6) \in {".", ","}
        THEN j + 7
        ELSE 0

Min(a, b) == IF a <= b THEN a ELSE b
Max(a, b) == IF a >= b THEN a ELSE b

\* Number(digits) of a string of ASCII digits, the first n of them read so far.
RECURSIVE NumberUpTo(_, _)
NumberUpTo(digits, n) ==
    IF n = 0 THEN 0 ELSE 10 * NumberUpTo(digits, n - 1) + DigitValue(digits[n])

Number(digits0) == Only({ NumberUpTo(digits, Len(digits)) : digits \in {digits0} })

\* s.padEnd(3, "0") with the zeros put in front, as padStart would.
padStart3(s0) ==
    Only({ IF Len(s) >= 3 THEN s ELSE [i \in 1..(3 - Len(s)) |-> "0"] \o s : s \in {s0} })

\* s.padEnd(3, "0")
padEnd3(s0) ==
    Only({ IF Len(s) >= 3 THEN s ELSE s \o [i \in 1..(3 - Len(s)) |-> "0"] : s \in {s0} })

(***************************************************************************)
(* timeToMs                                                                *)
(***************************************************************************)
timeToMs(rawArg) ==
    Only({
    LET \* /^(\d+):(\d{2}):(\d{2})[.,](\d{1,3})/
        f == FractionStartAt(t, 1)
        k == Min(3, DigitRunLen(t, f))
    IN  IF f = 0 \/ k = 0 THEN 0
        ELSE LET h == DigitRunLen(t, 1)
                 hh == Number(SubSeq(t, 1, h))
                 mm == Number(SubSeq(t, h + 2, h + 3))
                 ss == Number(SubSeq(t, h + 5, h + 6))
                 ms == Number(padEnd3(SubSeq(t, f, f + k - 1)))
             IN  ((hh * 60 + mm) * 60 + ss) * 1000 + ms
    : t \in {normalizeTimeString(rawArg)} })

(***************************************************************************)
(* parseTimingLine                                                         *)
(***************************************************************************)
\* The whole pattern of parseTimingLine at position i of the normalized line:
\* <<start of group 1, end of group 1, start of group 2, end of group 2>>, or <<>>
\* for no match.  \d{1,3} is greedy: the first fraction is the longest of 3, 2, 1
\* digits that an arrow follows, the second the longest there is.
TimingMatchAt(line, i) ==
    Only({
    Only({
        IF f1 = 0 \/ ks = {} THEN <<>>
        ELSE LET k1 == CHOOSE k \in ks : \A other \in ks : other <= k
                 a == ArrowLenAt(line, f1 + k1)
                 f2 == FractionStartAt(line, f1 + k1 + a)
                 k2 == Min(3, DigitRunLen(line, f2))
             IN  <<i, f1 + k1 - 1, f1 + k1 + a, f2 + k2 - 1>>
    : ks \in {{k \in 1..Min(3, DigitRunLen(line, f1)) :
                  LET a == ArrowLenAt(line, f1 + k)
                      f2 == FractionStartAt(line, f1 + k + a)
                  IN  a > 0 /\ f2 > 0 /\ DigitRunLen(line, f2) >= 1}} })
    : f1 \in {FractionStartAt(line, i)} })

\* The null parseTimingLine returns.
NoTiming == Nothing

parseTimingLine(rawLine) ==
    IF rawLine = NULL \/ rawLine = <<>> THEN NoTiming
    ELSE
    Only({
    Only({
        IF matches = {} THEN NoTiming
        ELSE \* the leftmost match is the one a regular expression finds
             Only({
             Only({
                 [startMs |-> timeToMs(startRaw), endMs |-> timeToMs(endRaw),
                  startRaw |-> startRaw, endRaw |-> endRaw, normalizedLine |-> line]
             : startRaw \in {SubSeq(line, match[1], match[2])},
               endRaw \in {SubSeq(line, match[3], match[4])} })
             : match \in {CHOOSE m \in matches : \A other \in matches : m[1] <= other[1]} })
    : matches \in {{TimingMatchAt(line, i) : i \in 1..Len(line)} \ {<<>>}} })
    : line \in {normalizeTimeString(rawLine)} })

(***************************************************************************)
(* parseSrt                                                                *)
(***************************************************************************)
\* s.replace(/^\uFEFF/, "")
StripLeadingBom(s0) ==
    Only({ IF s # <<>> /\ s[1] = "U+FEFF" THEN Tail(s) ELSE s : s \in {s0} })

\* s.replace(/\r\n/g, "\n"): the carriage return of each pair becomes the line
\* feed, the line feed of the pair goes.
ReplaceCrLf(s0) ==
    Only({
    LET kept == SelectSeq([i \in 1..Len(s) |-> i],
                          LAMBDA i : ~(s[i] = "\n" /\ CharAt(s, i - 1) = "\r"))
    IN  [k \in 1..Len(kept) |->
            IF s[kept[k]] = "\r" /\ CharAt(s, kept[k] + 1) = "\n" THEN "\n" ELSE s[kept[k]]]
    : s \in {s0} })

\* The length of the run of line feeds that starts at position i.
RECURSIVE LineFeedRunLen(_, _)
LineFeedRunLen(s, i) == IF CharAt(s, i) = "\n" THEN 1 + LineFeedRunLen(s, i + 1) ELSE 0

\* s cut at the separators that start at the positions given, each of length
\* lenAt(its position): the pieces before, between and after them.
SplitAt(s0, lenAt0) ==
    Only({
    LET starts == DOMAIN lenAt
        n == Cardinality(starts)
        nth(k) == CHOOSE i \in starts : Cardinality({j \in starts : j < i}) = k - 1
    IN  [k \in 1..(n + 1) |->
            SubSeq(s,
                   IF k = 1 THEN 1 ELSE nth(k - 1) + lenAt[nth(k - 1)],
                   IF k = n + 1 THEN Len(s) ELSE nth(k) - 1)]
    : s \in {s0}, lenAt \in {lenAt0} })

\* s.split(/\n{2,}/): the regular expression is greedy, a whole run of two or more
\* line feeds is one separator.
SplitOnBlankLines(s0) ==
    Only({
    SplitAt(s, [i \in {j \in 1..Len(s) :
                           s[j] = "\n" /\ CharAt(s, j - 1) # "\n" /\ CharAt(s, j + 1) = "\n"}
                  |-> LineFeedRunLen(s, i)])
    : s \in {s0} })

\* s.split("\n")
SplitOnLineFeed(s0) ==
    Only({ SplitAt(s, [i \in {j \in 1..Len(s) : s[j] = "\n"} |-> 1]) : s \in {s0} })

\* normalized.split(/\n{2,}/).map((b) => b.trim()).filter(Boolean)
SplitBlocks(normalized) ==
    Only({ SelectSeq([i \in 1..Len(pieces) |-> trim(pieces[i])], LAMBDA b : b # <<>>)
           : pieces \in {SplitOnBlankLines(normalized)} })

\* block.split("\n").map((l) => l.trimEnd())
SplitLines(block) ==
    Only({ [i \in 1..Len(pieces) |-> trimEnd(pieces[i])] : pieces \in {SplitOnLineFeed(block)} })

\* lines.findIndex(test), counted from 0, of the lines (hits, counted from 1) that
\* pass the test; -1 when no line passes.
FindIndex(hits0) ==
    Only({ IF hits = {} THEN -1 ELSE (CHOOSE i \in hits : \A other \in hits : i <= other) - 1
           : hits \in {hits0} })

\* The timing-line detection with its second pass, over the arrow variants, left out.
FindTimeLineIdxStandardOnly(lines) ==
    FindIndex({i \in 1..Len(lines) : includes(lines[i], StandardArrow)})

\* The timing line of a block: the first line that contains "-->"; only when there is
\* none, the first line that contains any of the arrows.
FindTimeLineIdx(lines) ==
    Only({ IF timeLineIdx = -1 THEN FindIndex({i \in 1..Len(lines) : HasAnyArrow(lines[i])})
           ELSE timeLineIdx
           : timeLineIdx \in {FindIndex({i \in 1..Len(lines) : includes(lines[i], StandardArrow)})} })

\* lines.join("\n")
RECURSIVE JoinFrom(_, _, _)
JoinFrom(lines, i, sep) ==
    IF i > Len(lines) THEN <<>>
    ELSE IF i = Len(lines) THEN lines[i]
    ELSE lines[i] \o sep \o JoinFrom(lines, i + 1, sep)

Join(lines0, sep) == Only({ JoinFrom(lines, 1, sep) : lines \in {lines0} })

\* One pass of the loop over the blocks, the cues pushed so far going in: those
\* pushed after it.
ParseBlock(block, pushed) ==
    Only({
    Only({
        IF timeLineIdx = -1 THEN pushed
        ELSE Only({
             IF timing = NoTiming THEN pushed
             ELSE LET bodyLines == SelectSeq(SubSeq(lines, timeLineIdx + 2, Len(lines)),
                                             LAMBDA l : Len(l) > 0)
                      cueText == trim(Join(bodyLines, <<"\n">>))
                  IN  Append(pushed, [index |-> Len(pushed), startMs |-> timing.startMs,
                                      endMs |-> timing.endMs, text |-> cueText])
             : timing \in {parseTimingLine(lines[timeLineIdx + 1])} })
    : timeLineIdx \in {FindTimeLineIdx(lines)} })
    : lines \in {SplitLines(block)} })

\* The loop over the blocks, from block i on.
RECURSIVE ParseBlocks(_, _, _)
ParseBlocks(blocks, i, pushed0) ==
    IF i > Len(blocks) THEN pushed0
    ELSE Only({ ParseBlocks(blocks, i + 1, pushed) : pushed \in {ParseBlock(blocks[i], pushed0)} })

\* cues.sort(...) left out.
NoSort(list) == list

\* cues.sort((a, b) => a.startMs - b.startMs): Array.prototype.sort is stable, cues of
\* equal startMs keep their order.
RECURSIVE SortFirst(_, _)
SortFirst(list, n) ==
    IF n = 0 THEN <<>>
    ELSE Only({ SelectSeq(sorted, LAMBDA c : c.startMs - list[n].startMs <= 0)
                  \o <<list[n]>>
                  \o SelectSeq(sorted, LAMBDA c : c.startMs - list[n].startMs > 0)
                : sorted \in {SortFirst(list, n - 1)} })

SortByStartMs(list0) == Only({ SortFirst(list, Len(list)) : list \in {list0} })

parseSrt(text) ==
    IF text = NULL \/ text = <<>> THEN <<>>
    ELSE
    LET normalized == ReplaceAll(ReplaceCrLf(StripLeadingBom(text)), {"\r"}, "\n")
    IN  Only({
        LET pushed == ParseBlocks(blocks, 1, <<>>)
        IN  Only({ [i \in 1..Len(sorted) |-> [sorted[i] EXCEPT !.index = i - 1]]
                   : sorted \in {SortByStartMs(pushed)} })
        : blocks \in {SplitBlocks(normalized)} })

(***************************************************************************)
(* Specification of the normalizer: normalizeTimeString applied to a       *)
(* string, and again to its own result.                                    *)
(***************************************************************************)
\* The characters the raw strings are drawn from: the ASCII characters of a
\* timestamp, whitespace, and three characters of the classes the normalizer maps.
RawAlphabet == {"0", "7", ":", ",", ".", " ", "\t", "U+00A0", "U+0663", "U+200F"}

RECURSIVE StringsUpTo(_, _)
StringsUpTo(alphabet, n) ==
    IF n = 0 THEN {<<>>}
    ELSE LET shorter == StringsUpTo(alphabet, n - 1)
         IN  shorter \cup {<<c>> \o s : c \in alphabet, s \in {t \in shorter : Len(t) = n - 1}}

IdleParser ==
    /\ doc = Nothing /\ srtText = <<>> /\ replaced = Nothing /\ replacedText = <<>>
    /\ cuesReplaced = <<>>

IdleLocator == positionMs = 0 /\ result = -1

IdleLoader ==
    /\ entry = "none" /\ mounted = FALSE /\ loads = <<>> /\ srtError = <<>> /\ written = Nothing
    /\ captured = Nothing

IdlePlayer ==
    /\ activeIndex = 0 /\ repeatLine = FALSE /\ lastRepeatRef = -1
    /\ dirty = FALSE /\ deps = Nothing /\ seek = Nothing /\ history = Nothing
    /\ IdleLoader

InitNormalize ==
    /\ pc = "raw"
    /\ raw \in StringsUpTo(RawAlphabet, MaxRawLen)
    /\ norm = NULL /\ norm2 = NULL
    /\ cues = <<>>
    /\ IdleParser /\ IdleLocator /\ IdlePlayer

Normalize ==
    /\ pc = "raw"
    /\ norm' = normalizeTimeString(raw)
    /\ pc' = "normalized"
    /\ UNCHANGED loadVars
    /\ UNCHANGED <<raw, norm2, doc, srtText, cues, replaced, replacedText, cuesReplaced, positionMs, result, activeIndex,
                   repeatLine, lastRepeatRef, dirty, deps, seek, history>>

NormalizeAgain ==
    /\ pc = "normalized"
    /\ norm2' = normalizeTimeString(norm)
    /\ pc' = "renormalized"
    /\ UNCHANGED loadVars
    /\ UNCHANGED <<raw, norm, doc, srtText, cues, replaced, replacedText, cuesReplaced, positionMs, result, activeIndex,
                   repeatLine, lastRepeatRef, dirty, deps, seek, history>>

NextNormalize == Normalize \/ NormalizeAgain

SpecNormalize == InitNormalize /\ [][NextNormalize]_vars

(***************************************************************************)
(* C8                                                                      *)
(***************************************************************************)
AsciiTimeChars == Digits \cup {":", ",", "."}

InC8Domain(s) == \A i \in 1..Len(s) : s[i] \in AsciiTimeChars \cup JsWhitespace

\* C8: for a raw string of ASCII digits, colon, comma, period and whitespace,
\* normalizing the normalized string changes nothing, and the normalized string
\* holds no whitespace character.
C8_NormalizeIdempotentNoWhitespace ==
    (pc = "renormalized" /\ InC8Domain(raw)) =>
        /\ norm2 = norm
        /\ \A i \in 1..Len(norm) : norm[i] \notin JsWhitespace

\* A string of the domain with whitespace inside and at both ends has been
\* normalized twice.
C8_Witness ==
    /\ pc = "renormalized"
    /\ InC8Domain(raw)
    /\ Len(raw) = MaxRawLen
    /\ raw[1] \in JsWhitespace /\ raw[Len(raw)] \in JsWhitespace
    /\ \E i \in 2..Len(raw) - 1 : raw[i] \in JsWhitespace
    /\ norm # <<>>

(***************************************************************************)
(* Subtitle documents.  A document is kept block by block and line by line *)
(* beside its text, so that what parseSrt makes of the text can be held    *)
(* against what was written into it.                                       *)
(***************************************************************************)
\* n in decimal, zero-padded to width digits.
RECURSIVE ToDigits(_, _)
ToDigits(n, width) ==
    IF width <= 1 /\ n < 10 THEN <<DigitChar(n)>>
    ELSE ToDigits(n \div 10, width - 1) \o <<DigitChar(n % 10)>>

\* A timestamp hh:mm:ss<sep>fraction: hh written with hw digits, the fraction the
\* number fn written with fw digits.
Stamp(hh, hw, mm, ss, sep, fn, fw) ==
    [hh |-> hh, hw |-> hw, mm |-> mm, ss |-> ss, sep |-> sep, fn |-> fn, fw |-> fw]

StampText(t) ==
    ToDigits(t.hh, t.hw) \o <<":">> \o ToDigits(t.mm, 2) \o <<":">> \o ToDigits(t.ss, 2)
        \o <<t.sep>> \o ToDigits(t.fn, t.fw)

\* The milliseconds the timestamp stands for: a fraction of fw digits counts
\* thousandths when fw = 3, hundredths when fw = 2, tenths when fw = 1.
StampMs(t) ==
    ((t.hh * 60 + t.mm) * 60 + t.ss) * 1000
        + t.fn * (CASE t.fw = 1 -> 100 [] t.fw = 2 -> 10 [] t.fw = 3 -> 1)

ArrowText(arrow) ==
    CASE arrow = "std" -> StandardArrow [] arrow = "em" -> EmDashArrow [] arrow = "en" -> EnDashArrow

\* A line: its characters, the arrow it holds ("none" for none), whether it is a
\* well-formed timing line and of which timestamps, and what it shows as caption text.
TimingLine(from, arrow, to, space) ==
    [chars |-> StampText(from) \o space \o ArrowText(arrow) \o space \o StampText(to),
     arrow |-> arrow, timing |-> TRUE, from |-> from, to |-> to,
     shown |-> StampText(from) \o space \o ArrowText(arrow) \o space \o StampText(to)]

TextLine(chars, arrow) ==
    [chars |-> chars, arrow |-> arrow, timing |-> FALSE, shown |-> trimEnd(chars)]

Sp == <<" ">>

S0 == Stamp(0, 2, 0, 0, ",", 0, 3)       \* 00:00:00,000
S1 == Stamp(0, 2, 0, 1, ",", 500, 3)     \* 00:00:01,500
S2 == Stamp(0, 2, 0, 2, ",", 0, 3)       \* 00:00:02,000
S3 == Stamp(0, 1, 0, 3, ".", 5, 1)       \* 0:00:03.5
S4 == Stamp(1, 2, 0, 0, ",", 0, 3)       \* 01:00:00,000
S5 == Stamp(0, 2, 0, 0, ",", 5, 1)       \* 00:00:00,5
S6 == Stamp(0, 1, 0, 0, ".", 50, 2)      \* 0:00:00.50
S7 == Stamp(0, 2, 0, 0, ",", 5, 3)       \* 00:00:00,005
S8 == Stamp(100, 3, 59, 59, ".", 999, 3) \* 100:59:59.999
S9 == Stamp(0, 1, 99, 99, ",", 5, 2)     \* 0:99:99,05

Stamps == {S0, S1, S2, S3, S4, S5, S6, S7, S8, S9}

LineNumber == TextLine(<<"1">>, "none")
LineHi == TextLine(<<"H", "i">>, "none")
LineBlank == TextLine(<<" ">>, "none")
LineTextStd == TextLine(<<"a", "-", "-", ">", "b">>, "std")
LineTextEm == TextLine(<<"x", "U+2014", ">", "y">>, "em")
\* A timing line without its fractions, which the timing pattern does not match.
LineNoFraction ==
    TextLine(<<"0", ":", "0", "0", ":", "0", "1", "-", "-", ">", "0", ":", "0", "0", ":", "0", "2">>, "std")

\* The blocks documents are made of.
BlockKinds ==
    { <<TimingLine(S2, "std", S3, Sp), LineHi>>,
      <<LineNumber, TimingLine(S1, "std", S2, Sp), LineHi, LineHi>>,
      <<TimingLine(S1, "std", S0, <<>>)>>,
      <<LineNumber, LineHi>>,
      <<TimingLine(S4, "em", S4, Sp), LineHi>>,
      <<TimingLine(S0, "en", S1, <<>>), LineBlank, LineHi>>,
      <<TimingLine(S0, "std", S1, Sp), LineTextStd>>,
      <<LineTextEm, TimingLine(S2, "std", S3, Sp)>>,
      <<LineTextStd, TimingLine(S0, "std", S1, Sp)>>,
      <<TimingLine(S3, "em", S4, Sp), LineTextStd>>,
      <<LineNoFraction, LineHi>>,
      <<LineBlank>> }

\* How a document is laid out: its line break, the number of line breaks between two
\* blocks, a leading byte order mark, a line break after the last block.
Layouts ==
    { [eol |-> <<"\n">>, gap |-> 2, bom |-> FALSE, final |-> FALSE],
      [eol |-> <<"\r", "\n">>, gap |-> 2, bom |-> TRUE, final |-> TRUE],
      [eol |-> <<"\r">>, gap |-> 3, bom |-> FALSE, final |-> TRUE] }

RECURSIVE SeqsUpTo(_, _)
SeqsUpTo(S, n) ==
    IF n = 0 THEN {<<>>}
    ELSE LET shorter == SeqsUpTo(S, n - 1)
         IN  shorter \cup {Append(q, x) : q \in {t \in shorter : Len(t) = n - 1}, x \in S}

\* Documents of up to MaxBlocks blocks in each layout, and the one-block documents
\* of every timing line that two of the timestamps make.
Documents ==
    [blocks : SeqsUpTo(BlockKinds, MaxBlocks), layout : Layouts]
    \cup {[blocks |-> << <<TimingLine(a, "std", b, Sp), LineHi>> >>,
           layout |-> CHOOSE l \in Layouts : l.eol = <<"\n">>] : a \in Stamps, b \in Stamps}

RECURSIVE Times(_, _)
Times(s, n) == IF n = 0 THEN <<>> ELSE s \o Times(s, n - 1)

DocumentText(d) ==
    LET blockTexts == [i \in 1..Len(d.blocks) |->
                          Join([j \in 1..Len(d.blocks[i]) |-> d.blocks[i][j].chars], d.layout.eol)]
    IN  (IF d.layout.bom THEN <<"U+FEFF">> ELSE <<>>)
          \o Join(blockTexts, Times(d.layout.eol, d.layout.gap))
          \o (IF d.layout.final THEN d.layout.eol ELSE <<>>)

\* The line of a block (from 1) that holds its timing: the first line with the
\* standard arrow; without one, the first line with any arrow; 0 without any.
First(S) == CHOOSE i \in S : \A other \in S : i <= other

TimingLineOf(block) ==
    LET std == {i \in 1..Len(block) : block[i].arrow = "std"}
        any == {i \in 1..Len(block) : block[i].arrow # "none"}
    IN  IF std # {} THEN First(std) ELSE IF any # {} THEN First(any) ELSE 0

YieldsCue(block) == TimingLineOf(block) # 0 /\ block[TimingLineOf(block)].timing

\* The caption of a block: what its lines after the timing line show, blank lines left out.
CaptionOf(block) ==
    LET after == SubSeq(block, TimingLineOf(block) + 1, Len(block))
        shown == SelectSeq([i \in 1..Len(after) |-> after[i].shown], LAMBDA t : t # <<>>)
    IN  trim(Join(shown, <<"\n">>))

\* The blocks of a document that yield a cue, in the order of the document.
YieldingBlocks(d) == SelectSeq(d.blocks, YieldsCue)

\* What the cues of a document are to be, block by block: the milliseconds of the
\* two timestamps of the timing line and the caption.
ExpectedCues(d) ==
    Only({ [i \in 1..Len(blocks) |->
               [startMs |-> StampMs(blocks[i][TimingLineOf(blocks[i])].from),
                endMs |-> StampMs(blocks[i][TimingLineOf(blocks[i])].to),
                text |-> CaptionOf(blocks[i])]]
           : blocks \in {YieldingBlocks(d)} })

Range(f) == {f[i] : i \in DOMAIN f}

Count(f, x) == Cardinality({i \in DOMAIN f : f[i] = x})

SameBag(f, g) == Len(f) = Len(g) /\ \A x \in Range(f) \cup Range(g) : Count(f, x) = Count(g, x)

Texts(list) == [i \in 1..Len(list) |-> list[i].text]

Times2(list) == [i \in 1..Len(list) |-> <<list[i].startMs, list[i].endMs>>]

(***************************************************************************)
(* Specification of the parser: parseSrt applied to a document, and to the *)
(* document with the arrow of one block's timing line rewritten.           *)
(***************************************************************************)
\* s with every "-->" replaced by the arrow, left to right.
ReplaceStandardArrow(s, arrow) ==
    Join(SplitAt(s, [i \in {j \in 1..Len(s) : StartsWithAt(s, j, StandardArrow)}
                       |-> Len(StandardArrow)]),
         arrow)

\* The document with the standard arrow of block b's timing line replaced.
WithArrow(d, b, arrow) ==
    LET t == TimingLineOf(d.blocks[b])
        line == d.blocks[b][t]
    IN  [d EXCEPT !.blocks[b][t] =
            [line EXCEPT !.chars = ReplaceStandardArrow(line.chars, ArrowText(arrow)),
                         !.arrow = arrow]]

HasStandardTimingLine(block) ==
    TimingLineOf(block) # 0 /\ block[TimingLineOf(block)].arrow = "std"

InitParse ==
    /\ pc = "document"
    /\ doc \in Documents
    /\ srtText = DocumentText(doc)
    /\ cues = <<>>
    /\ replaced = Nothing /\ replacedText = <<>> /\ cuesReplaced = <<>>
    /\ raw = NULL /\ norm = NULL /\ norm2 = NULL
    /\ IdleLocator /\ IdlePlayer

Parse ==
    /\ pc = "document"
    /\ cues' = parseSrt(srtText)
    /\ pc' = "parsed"
    /\ UNCHANGED loadVars
    /\ UNCHANGED <<raw, norm, norm2, doc, srtText, replaced, replacedText, cuesReplaced,
                   positionMs, result, activeIndex, repeatLine, lastRepeatRef,
                   dirty, deps, seek, history>>

ParseReplaced ==
    /\ pc = "parsed"
    /\ \E b \in 1..Len(doc.blocks), arrow \in {"em", "en"} :
          /\ HasStandardTimingLine(doc.blocks[b])
          /\ replaced' = [block |-> b, arrow |-> arrow]
          /\ replacedText' = DocumentText(WithArrow(doc, b, arrow))
          /\ cuesReplaced' = parseSrt(replacedText')
    /\ pc' = "replaced"
    /\ UNCHANGED loadVars
    /\ UNCHANGED <<raw, norm, norm2, doc, srtText, cues, positionMs, result,
                   activeIndex, repeatLine, lastRepeatRef, dirty, deps, seek, history>>

NextParse == Parse \/ ParseReplaced

SpecParse == InitParse /\ [][NextParse]_vars

\* The arrow of block b's timing line rewritten, the same line is still the one
\* detected: no later line of the block holds the standard arrow, which the first
\* scan would now find, and no earlier line holds any arrow, which the second would.
StillDetected(d, b) ==
    LET block == d.blocks[b]
        t == TimingLineOf(block)
    IN  /\ \A j \in (t + 1)..Len(block) : block[j].arrow # "std"
        /\ \A j \in 1..(t - 1) : block[j].arrow = "none"

(***************************************************************************)
(* C4 - C7                                                                 *)
(***************************************************************************)
SortedByStartMs(list) == \A i \in 1..(Len(list) - 1) : list[i].startMs <= list[i + 1].startMs

IndexedByPosition(list) == \A i \in 1..Len(list) : list[i].index = i - 1

\* C4: whatever the order of the blocks of the document, the cues parseSrt returns
\* are in ascending order of startMs, and the index of each cue is its position
\* in the returned sequence, from 0.
C4_SortedAndReindexed ==
    /\ pc \in {"parsed", "replaced"} => SortedByStartMs(cues) /\ IndexedByPosition(cues)
    /\ pc = "replaced" => SortedByStartMs(cuesReplaced) /\ IndexedByPosition(cuesReplaced)

\* Two blocks, the later of which starts earlier, have been parsed into two cues.
C4_Witness ==
    /\ pc = "parsed"
    /\ Len(doc.blocks) = 2 /\ Len(cues) = 2
    /\ YieldsCue(doc.blocks[1]) /\ YieldsCue(doc.blocks[2])
    /\ StampMs(doc.blocks[1][TimingLineOf(doc.blocks[1])].from)
          > StampMs(doc.blocks[2][TimingLineOf(doc.blocks[2])].from)
    /\ cues[1].startMs < cues[2].startMs

\* C5: parseSrt returns one cue for each block whose detected timing line matches
\* the timing pattern, with the caption of that block as text (the empty text
\* when no caption line follows), and no cue for any other block: as many cues
\* as there are such blocks, none when there is none.
C5_OneCuePerParseableBlock ==
    pc = "parsed" =>
        /\ Len(cues) = Cardinality({b \in 1..Len(doc.blocks) : YieldsCue(doc.blocks[b])})
        /\ SameBag(Texts(cues), Texts(ExpectedCues(doc)))

\* A block whose timing line is its last line and a block without a parseable
\* timing line have been parsed: one cue, its text empty.
C5_Witness ==
    /\ pc = "parsed"
    /\ Len(doc.blocks) = 2
    /\ \E b \in 1..2 :
          /\ YieldsCue(doc.blocks[b]) /\ TimingLineOf(doc.blocks[b]) = Len(doc.blocks[b])
          /\ ~YieldsCue(doc.blocks[3 - b]) /\ TimingLineOf(doc.blocks[3 - b]) # 0
    /\ Len(cues) = 1 /\ cues[1].text = <<>>

\* C6: the startMs and endMs of the cues are, for the two timestamps of each timing
\* line, ((hours * 60 + minutes) * 60 + seconds) * 1000 plus the fraction read as
\* tenths, hundredths or thousandths of a second according to its 1, 2 or 3 digits.
C6_TimestampMilliseconds ==
    pc = "parsed" => SameBag(Times2(cues), Times2(ExpectedCues(doc)))

\* A timing line from 00:00:00,005 to 00:00:00,5 has been parsed: 5 and 500.
C6_Witness ==
    /\ pc = "parsed"
    /\ Len(doc.blocks) = 1 /\ YieldsCue(doc.blocks[1])
    /\ doc.blocks[1][1].from = S7 /\ doc.blocks[1][1].to = S5
    /\ Len(cues) = 1 /\ cues[1].startMs = 5 /\ cues[1].endMs = 500

\* C7 as claimed: in every document, with the standard arrow of a block's timing
\* line replaced by an em-dash or en-dash arrow, parseSrt returns the same cues.
C7_Claimed_ArrowVariantSameCues ==
    (pc = "replaced" /\ YieldsCue(doc.blocks[replaced.block])) => cuesReplaced = cues

\* C7: with the standard arrow of a block's detected timing line replaced by an
\* em-dash or en-dash arrow, parseSrt returns the same cues, provided the line
\* is still the one detected: no later line of the block holds "-->" and no
\* earlier line holds an arrow variant.
C7_ArrowVariantSameCues ==
    (pc = "replaced" /\ StillDetected(doc, replaced.block)) => cuesReplaced = cues

\* The arrow of a parseable timing line with a caption below it has been replaced in
\* a document of two cues, and the line is still the one detected.
C7_Witness ==
    /\ pc = "replaced"
    /\ StillDetected(doc, replaced.block)
    /\ YieldsCue(doc.blocks[replaced.block])
    /\ TimingLineOf(doc.blocks[replaced.block]) < Len(doc.blocks[replaced.block])
    /\ Len(cues) = 2
    /\ replacedText # srtText

(***************************************************************************)
(* findCueIndex                                                            *)
(***************************************************************************)
BeforeOrAtStart(positionMs0, c) == positionMs0 <= c.startMs

\* positionMs < c.startMs
Before(positionMs0, c) == positionMs0 < c.startMs

\* positionMs > c.endMs
After(positionMs0, c) == positionMs0 > c.endMs

BestKept(best, mid) == best

\* best = mid
Best(best, mid) == mid

InsertionPoint(list, lo, best) == lo

\* Math.max(0, Math.min(best, cues.length - 1))
Clamped(list, lo, best) == Max(0, Min(best, Len(list) - 1))

\* The while loop, from the values lo, hi and best have when its condition is tested.
RECURSIVE Search(_, _, _, _, _)
Search(list, positionMs0, lo, hi, best) ==
    IF lo > hi THEN Clamped(list, lo, best)
    ELSE Only({
         IF Before(positionMs0, list[mid + 1]) THEN Search(list, positionMs0, lo, mid - 1, best)
         ELSE IF After(positionMs0, list[mid + 1])
              THEN Search(list, positionMs0, mid + 1, hi, Best(best, mid))
         ELSE mid
         : mid \in {(lo + hi) \div 2} })

findCueIndex(list, positionMs0) ==
    IF list = NullCues \/ Len(list) = 0 THEN 0
    ELSE Search(list, positionMs0, 0, Len(list) - 1, 0)

(***************************************************************************)
(* Specification of the locator: findCueIndex applied to a cue sequence at *)
(* one position after another.                                             *)
(***************************************************************************)
Cue(startMs, endMs) == [index |-> 0, startMs |-> startMs, endMs |-> endMs, text |-> <<>>]

Indexed(list) == [i \in 1..Len(list) |-> [list[i] EXCEPT !.index = i - 1]]

\* The cue sequences of up to n cues that are sorted, each cue ending no earlier
\* than it starts and before the next one starts.
RECURSIVE SeparateCueLists(_)
SeparateCueLists(n) ==
    IF n = 0 THEN {<<>>}
    ELSE LET shorter == SeparateCueLists(n - 1)
             longest == {q \in shorter : Len(q) = n - 1}
             next(q) == {Cue(a, b) : a \in 0..MaxMs, b \in 0..MaxMs}
         IN  shorter \cup UNION { {Append(q, c) : c \in {x \in next(q) :
                                      /\ x.startMs <= x.endMs
                                      /\ q # <<>> => q[Len(q)].endMs < x.startMs}}
                                  : q \in longest }

\* Cue sequences of any kind: out of order, overlapping, ending before they start.
AnyCueLists == SeqsUpTo({Cue(a, b) : a \in 0..MaxAnyMs, b \in 0..MaxAnyMs}, MaxCues)

CueLists == {Indexed(q) : q \in SeparateCueLists(MaxCues) \cup AnyCueLists} \cup {NullCues}

Positions == (0 - 1)..(MaxMs + 1)

InitLocate ==
    /\ pc = "cues"
    /\ cues \in CueLists
    /\ IdleLocator /\ IdlePlayer /\ IdleParser
    /\ raw = NULL /\ norm = NULL /\ norm2 = NULL

Locate ==
    /\ pc \in {"cues", "located"}
    /\ \E p \in Positions :
          /\ positionMs' = p
          /\ result' = findCueIndex(cues, p)
    /\ pc' = "located"
    /\ UNCHANGED loadVars
    /\ UNCHANGED <<raw, norm, norm2, doc, srtText, cues, replaced, replacedText, cuesReplaced,
                   activeIndex, repeatLine, lastRepeatRef, dirty, deps, seek, history>>

NextLocate == Locate

SpecLocate == InitLocate /\ [][NextLocate]_vars

(***************************************************************************)
(* C1, C2, C3, C9                                                          *)
(***************************************************************************)
\* Sorted by startMs, every cue an interval, no two intervals with a common point.
Separate(list) ==
    /\ list # NullCues
    /\ \A i \in 1..Len(list) : list[i].startMs <= list[i].endMs
    /\ \A i \in 1..(Len(list) - 1) :
          list[i].startMs <= list[i + 1].startMs /\ list[i].endMs < list[i + 1].startMs

Contains(c, p) == c.startMs <= p /\ p <= c.endMs

Containing(list, p) == {i \in 1..Len(list) : Contains(list[i], p)}

Ended(list, p) == {i \in 1..Len(list) : list[i].endMs < p}

\* C1: on a cue sequence sorted by startMs whose intervals [startMs, endMs] have
\* no point in common, at a position inside the interval of a cue, ends included,
\* findCueIndex returns the index of that cue.
C1_ContainingCueFound ==
    (pc = "located" /\ Separate(cues)) =>
        \A i \in Containing(cues, positionMs) : result = i - 1

\* The position is the end of a cue and the next cue starts one millisecond later.
C1_Witness ==
    /\ pc = "located" /\ Separate(cues) /\ Len(cues) = MaxCues
    /\ \E i \in 1..(Len(cues) - 1) :
          /\ positionMs = cues[i].endMs
          /\ cues[i + 1].startMs = cues[i].endMs + 1
          /\ cues[i].startMs < cues[i].endMs
          /\ result = i - 1

\* C2 as claimed: on a non-empty, sorted, non-overlapping cue sequence, at a position
\* inside no cue (before the first, between two, past the last), findCueIndex
\* returns the largest index whose cue ends before the position.
C2_Claimed_LastEndedCue ==
    (pc = "located" /\ Separate(cues) /\ Len(cues) > 0 /\ Containing(cues, positionMs) = {}) =>
        /\ Ended(cues, positionMs) # {}
        /\ \A i \in Ended(cues, positionMs) : i - 1 <= result
        /\ result + 1 \in Ended(cues, positionMs)

\* C2: on a non-empty, sorted, non-overlapping cue sequence, at a position inside
\* no cue, findCueIndex returns the largest index whose cue ends before the
\* position when there is such a cue, and 0 when the position is before the
\* first cue.
C2_LastEndedCueOrFirst ==
    (pc = "located" /\ Separate(cues) /\ Len(cues) > 0 /\ Containing(cues, positionMs) = {}) =>
        IF Ended(cues, positionMs) = {} THEN result = 0
        ELSE /\ \A i \in Ended(cues, positionMs) : i - 1 <= result
             /\ result + 1 \in Ended(cues, positionMs)

\* The position is in the gap after the second of three cues.
C2_Witness ==
    /\ pc = "located" /\ Separate(cues) /\ Len(cues) = MaxCues
    /\ Containing(cues, positionMs) = {}
    /\ cues[2].endMs < positionMs /\ positionMs < cues[3].startMs
    /\ result = 1

\* C3: on any cue sequence, in order or not, overlapping or not, cues that end
\* before they start included, and at any position, findCueIndex returns an index
\* of the sequence, from 0 to its length less one; on the empty sequence and on
\* no sequence at all it returns 0.
C3_IndexInRange ==
    pc = "located" =>
        IF cues = NullCues \/ cues = <<>> THEN result = 0
        ELSE result \in 0..(Len(cues) - 1)

\* Located in a sequence that is out of order and holds a cue ending before it starts.
C3_Witness ==
    /\ pc = "located" /\ cues # NullCues /\ Len(cues) = MaxCues
    /\ cues[1].startMs > cues[2].startMs
    /\ \E i \in 1..Len(cues) : cues[i].startMs > cues[i].endMs
    /\ positionMs > 0
    /\ result \in 0..(Len(cues) - 1)

\* C9: on a non-empty, sorted, non-overlapping cue sequence, from one call of
\* findCueIndex to the next at a position that is no earlier, the index returned
\* is no smaller.
C9_MonotoneInPosition ==
    [][(pc = "located" /\ Separate(cues) /\ Len(cues) > 0 /\ positionMs' >= positionMs)
          => result' >= result]_vars

\* Located in the last of three cues, the position having moved on.
C9_Witness ==
    /\ pc = "located" /\ Separate(cues) /\ Len(cues) = MaxCues
    /\ positionMs = cues[MaxCues].startMs
    /\ result = MaxCues - 1

(***************************************************************************)
(* PlayerInner: its state, the events that change it, and the render with  *)
(* the effects that follows them.                                          *)
(***************************************************************************)
RepeatMarginMs == 40

\* A timestamp of so many milliseconds, less than a second.
Ms(n) == Stamp(0, 2, 0, 0, ",", n, 3)

Captioned(from, to) == <<TimingLine(Ms(from), "std", Ms(to), Sp), LineHi>>

PlainLayout == [eol |-> <<"\n">>, gap |-> 2, bom |-> FALSE, final |-> FALSE]

\* The texts the subtitle file of an entry may hold.
PlayerTexts ==
    { DocumentText([blocks |-> <<Captioned(0, 100), Captioned(200, 300)>>, layout |-> PlainLayout]),
      DocumentText([blocks |-> <<Captioned(0, 100), Captioned(200, 300), Captioned(400, 500)>>,
                    layout |-> PlainLayout]) }

\* The positions the audio player reports.
TickPositions == {0, 59, 60, 260}

\* The condition of the earlier Player: c && positionMs >= c.endMs - 40
ShouldSeekBackAtEnd(positionMs0, c, lastRepeat) == positionMs0 >= c.endMs - RepeatMarginMs

\* positionMs >= c.endMs - 40 && lastRepeatRef.current !== c.index
ShouldSeekBack(positionMs0, c, lastRepeat) ==
    positionMs0 >= c.endMs - RepeatMarginMs /\ lastRepeat # c.index

\* Nothing has happened since the seek-back to the cue of this index (-1: since the
\* start): no press that turned repeat-line off, no render with repeat-line off, no
\* change of the number of cues.
Since(index) == [last |-> index, off |-> FALSE, renderedOff |-> FALSE, count |-> FALSE]

InitPlayer ==
    /\ pc = "player"
    /\ srtText = <<>>
    /\ cues = <<>>
    /\ positionMs = 0
    /\ activeIndex = 0 /\ repeatLine = FALSE /\ lastRepeatRef = -1
    /\ dirty = TRUE
    /\ deps = Nothing
    /\ seek = Nothing
    /\ history = Since(-1)
    /\ IdleLoader
    /\ result = -1
    /\ doc = Nothing /\ replaced = Nothing /\ replacedText = <<>> /\ cuesReplaced = <<>>
    /\ raw = NULL /\ norm = NULL /\ norm2 = NULL

\* The audio player reports another position.
Tick ==
    /\ \E p \in TickPositions : p # positionMs /\ positionMs' = p
    /\ dirty' = TRUE
    /\ UNCHANGED loadVars
    /\ UNCHANGED <<pc, raw, norm, norm2, doc, srtText, cues, replaced, replacedText, cuesReplaced,
                   result, activeIndex, repeatLine, lastRepeatRef, deps, seek, history>>

\* setRepeatLine((v) => !v)
ToggleRepeat ==
    /\ repeatLine' = ~repeatLine
    /\ history' = [history EXCEPT !.off = @ \/ repeatLine]
    /\ dirty' = TRUE
    /\ UNCHANGED loadVars
    /\ UNCHANGED <<pc, raw, norm, norm2, doc, srtText, cues, replaced, replacedText, cuesReplaced,
                   positionMs, result, activeIndex, lastRepeatRef, deps, seek>>

\* setSrtText("") and setSrtText(text)
SetSrtText ==
    /\ \E text \in PlayerTexts \cup {<<>>} : text # srtText /\ srtText' = text
    /\ dirty' = TRUE
    /\ UNCHANGED loadVars
    /\ UNCHANGED <<pc, raw, norm, norm2, doc, cues, replaced, replacedText, cuesReplaced,
                   positionMs, result, activeIndex, repeatLine, lastRepeatRef, deps, seek, history>>

\* A render: the body of PlayerInner on the state of the moment.  useMemo parses
\* srtText when it is not the srtText of the render before.  The effects of the
\* render are left to run later, on the values captured here; the effects of the
\* render before have run by then.
Render ==
    /\ dirty
    /\ captured = Nothing
    /\ cues' = IF deps # Nothing /\ deps.srtText = srtText THEN cues
               ELSE IF srtText # <<>> THEN parseSrt(srtText) ELSE <<>>
    /\ captured' = [entry |-> entry, srtText |-> srtText, positionMs |-> positionMs,
                    repeatLine |-> repeatLine, activeIndex |-> activeIndex]
    /\ history' = [history EXCEPT !.renderedOff = @ \/ ~repeatLine]
    /\ dirty' = FALSE
    /\ UNCHANGED <<pc, raw, norm, norm2, doc, srtText, replaced, replacedText, cuesReplaced,
                   positionMs, result, activeIndex, repeatLine, lastRepeatRef, deps, seek,
                   entry, mounted, loads, srtError, written>>

\* The position effect on the values of the render r: the index it sets active,
\* lastRepeatRef after it, and the cue it seeks back to, if any.
PositionEffect(list, lastRepeat, pending, r) ==
    IF Len(list) = 0 THEN [activeIndex |-> pending, lastRepeatRef |-> lastRepeat, seekTo |-> Nothing]
    ELSE Only({
         LET set == IF idx # r.activeIndex THEN idx ELSE pending
         IN  IF ~r.repeatLine
             THEN [activeIndex |-> set, lastRepeatRef |-> -1, seekTo |-> Nothing]
             ELSE IF idx + 1 \notin DOMAIN list
             THEN [activeIndex |-> set, lastRepeatRef |-> lastRepeat, seekTo |-> Nothing]
             ELSE IF ShouldSeekBack(r.positionMs, list[idx + 1], lastRepeat)
             THEN [activeIndex |-> set, lastRepeatRef |-> list[idx + 1].index,
                   seekTo |-> list[idx + 1]]
             ELSE [activeIndex |-> set, lastRepeatRef |-> lastRepeat, seekTo |-> Nothing]
         : idx \in {findCueIndex(list, r.positionMs)} })

\* The reset effect and the position effect of the last render, each if its
\* dependencies are not those of the effects that ran before, in the order of the
\* component, on the values the render captured and on lastRepeatRef as it is now.
PassiveEffects ==
    /\ LET r == captured
           mounting == deps = Nothing
           countChanged == mounting \/ deps.count # Len(cues)
           changed == \/ mounting
                      \/ deps.positionMs # r.positionMs
                      \/ deps.srtText # r.srtText
                      \/ deps.repeatLine # r.repeatLine
                      \/ deps.activeIndex # r.activeIndex
           pending == IF countChanged THEN 0 ELSE activeIndex
           lastRepeat == IF countChanged THEN -1 ELSE lastRepeatRef
           after == IF changed THEN PositionEffect(cues, lastRepeat, pending, r)
                    ELSE [activeIndex |-> pending, lastRepeatRef |-> lastRepeat, seekTo |-> Nothing]
           between == [history EXCEPT !.count = @ \/ (~mounting /\ countChanged)]
       IN  /\ activeIndex' = after.activeIndex
           /\ lastRepeatRef' = after.lastRepeatRef
           /\ IF after.seekTo # Nothing
              THEN /\ seek' = [index |-> after.seekTo.index,
                               startMs |-> after.seekTo.startMs,
                               endMs |-> after.seekTo.endMs,
                               positionMs |-> r.positionMs,
                               repeatLine |-> r.repeatLine,
                               pressed |-> repeatLine,
                               lastRepeat |-> lastRepeat,
                               between |-> between]
                   /\ history' = Since(after.seekTo.index)
              ELSE /\ seek' = Nothing
                   /\ history' = between
    /\ deps' = [count |-> Len(cues), positionMs |-> captured.positionMs, srtText |-> captured.srtText,
                repeatLine |-> captured.repeatLine, activeIndex |-> captured.activeIndex]
    /\ captured' = Nothing

\* The effects of the last render run, the subtitle text being set from outside
\* (SetSrtText).
Effects ==
    /\ captured # Nothing
    /\ PassiveEffects
    /\ dirty' = (dirty \/ activeIndex' # activeIndex)
    /\ UNCHANGED <<pc, raw, norm, norm2, doc, srtText, cues, replaced, replacedText, cuesReplaced,
                   positionMs, result, repeatLine, entry, mounted, loads, srtError, written>>

NextPlayer == Tick \/ ToggleRepeat \/ SetSrtText \/ Render \/ Effects

SpecPlayer == InitPlayer /\ [][NextPlayer]_vars

(***************************************************************************)
(* C10                                                                     *)
(***************************************************************************)
\* C10 as claimed: the position effect seeks back to the start of the located cue
\* only while repeat-line is on, at a position no earlier than 40 ms before the end
\* of that cue, and with lastRepeatRef other than the index of that cue; and a
\* seek-back goes to the same cue index as the seek-back before it only if, between
\* the two, repeat-line was turned off or the number of cues changed.
C10_Claimed_SeekBackOncePerCue ==
    seek # Nothing =>
        /\ seek.pressed
        /\ seek.positionMs >= seek.endMs - RepeatMarginMs
        /\ seek.lastRepeat # seek.index
        /\ seek.between.last = seek.index => (seek.between.off \/ seek.between.count)

\* C10: the position effect seeks back to the start of the located cue only if, in
\* the render whose effect it is, repeat-line is on and the position is no earlier
\* than 40 ms before the end of that cue, and with lastRepeatRef other than the index
\* of that cue; and a seek-back goes to the same cue index as the seek-back before
\* it only if, between the two, there was a render with repeat-line off or the
\* number of cues changed.  A press that turns repeat-line off after a render does
\* not stop the seek-back of the effect of that render.
C10_SeekBackOncePerCueAsRendered ==
    seek # Nothing =>
        /\ seek.repeatLine
        /\ seek.positionMs >= seek.endMs - RepeatMarginMs
        /\ seek.lastRepeat # seek.index
        /\ seek.between.last = seek.index => (seek.between.renderedOff \/ seek.between.count)

\* A second seek-back to the same cue: repeat-line was turned off before the effect
\* of the first ran, a render with repeat-line off followed, and repeat-line was
\* turned on again; no press turned it off between the two and the number of cues
\* stayed.
C10_Witness ==
    /\ seek # Nothing
    /\ seek.between.last = seek.index
    /\ seek.between.renderedOff /\ ~seek.between.off /\ ~seek.between.count
    /\ seek.pressed

(***************************************************************************)
(* PlayerInner: the subtitle load effect.  Each run of the effect starts   *)
(* an async function with a cancelled flag of its own; the cleanup of the  *)
(* run, on a change of entry.srt and on unmount, sets the flag.            *)
(***************************************************************************)
MaxLoads == 3

\* The entries, named by their subtitle assets, and the text of each asset.
Entries == {"a", "b"}

TextOf(e) ==
    IF e = "a"
    THEN DocumentText([blocks |-> <<Captioned(0, 100), Captioned(200, 300)>>, layout |-> PlainLayout])
    ELSE DocumentText([blocks |-> <<Captioned(0, 100), Captioned(200, 300), Captioned(400, 500)>>,
                       layout |-> PlainLayout])

\* String(e?.message ?? e)
ErrorMessage == <<"e", "r", "r", "o", "r">>

\* A run of the effect for the asset: let cancelled = false, and the async function
\* at its first await.
NewLoad(e) == [srt |-> e, at |-> "download", cancelled |-> FALSE, cleanedUp |-> FALSE]

\* return () => { cancelled = true; }
Cleanup(load) == [load EXCEPT !.cancelled = TRUE, !.cleanedUp = TRUE]

\* The run of the effect that has not been cleaned up is the last one.
Live == loads[Len(loads)]

WritesAlways(load) == TRUE

\* if (!cancelled)
Writes(load) == ~load.cancelled

\* The catch block of load i.
Catch(i) ==
    IF Writes(loads[i])
    THEN /\ srtError' = ErrorMessage
         /\ written' = [load |-> i, cleanedUp |-> loads[i].cleanedUp, what |-> "srtError"]
         /\ loads' = [loads EXCEPT ![i].at = "failed"]
         /\ dirty' = (dirty \/ srtError # ErrorMessage)
         /\ UNCHANGED srtText
    ELSE /\ loads' = [loads EXCEPT ![i].at = "dropped"]
         /\ UNCHANGED <<srtError, written, dirty, srtText>>

InitLoad ==
    /\ pc = "player"
    /\ entry \in Entries
    /\ mounted = TRUE
    /\ loads = <<>>
    /\ srtError = <<>>
    /\ written = Nothing
    /\ captured = Nothing
    /\ srtText = <<>>
    /\ cues = <<>>
    /\ positionMs = 0
    /\ activeIndex = 0 /\ repeatLine = FALSE /\ lastRepeatRef = -1
    /\ dirty = TRUE
    /\ deps = Nothing
    /\ seek = Nothing
    /\ history = Since(-1)
    /\ result = -1
    /\ doc = Nothing /\ replaced = Nothing /\ replacedText = <<>> /\ cuesReplaced = <<>>
    /\ raw = NULL /\ norm = NULL /\ norm2 = NULL

\* Player renders PlayerInner with another entry.
ChangeEntry ==
    /\ mounted
    /\ Len(loads) < MaxLoads
    /\ \E e \in Entries : e # entry /\ entry' = e
    /\ dirty' = TRUE
    /\ UNCHANGED <<pc, raw, norm, norm2, doc, srtText, cues, replaced, replacedText, cuesReplaced,
                   positionMs, result, activeIndex, repeatLine, lastRepeatRef, deps, seek, history,
                   captured, mounted, loads, srtError, written>>

\* PlayerInner is unmounted, the effects of its last render having run: the cleanup
\* of the run of the effect that is live.
Unmount ==
    /\ mounted
    /\ captured = Nothing
    /\ loads # <<>>
    /\ mounted' = FALSE
    /\ loads' = [loads EXCEPT ![Len(loads)] = Cleanup(@)]
    /\ dirty' = FALSE
    /\ UNCHANGED <<pc, raw, norm, norm2, doc, srtText, cues, replaced, replacedText, cuesReplaced,
                   positionMs, result, activeIndex, repeatLine, lastRepeatRef, deps, seek, history,
                   captured, entry, srtError, written>>

\* The effects of the last render run, the load effect first: when entry.srt of the
\* render is not that of the run before, the cleanup of that run, and a new run up
\* to its first await.
EffectsLoad ==
    /\ mounted
    /\ captured # Nothing
    /\ PassiveEffects
    /\ IF loads = <<>> \/ Live.srt # captured.entry
       THEN /\ loads' = Append([i \in 1..Len(loads) |->
                                   IF i = Len(loads) THEN Cleanup(loads[i]) ELSE loads[i]],
                               NewLoad(captured.entry))
            /\ srtError' = <<>>
            /\ srtText' = <<>>
            /\ written' = [load |-> Len(loads) + 1, cleanedUp |-> FALSE, what |-> "srtText"]
       ELSE UNCHANGED <<loads, srtError, srtText, written>>
    /\ dirty' = (dirty \/ activeIndex' # activeIndex \/ srtText' # srtText \/ srtError' # srtError)
    /\ UNCHANGED <<pc, raw, norm, norm2, doc, cues, replaced, replacedText, cuesReplaced,
                   positionMs, result, repeatLine, entry, mounted>>

\* await asset.downloadAsync() settles; if (cancelled) return; fetch(uri) is called.
DownloadSettles ==
    /\ \E i \in 1..Len(loads), ok \in BOOLEAN :
          /\ loads[i].at = "download"
          /\ IF ok
             THEN /\ loads' = [loads EXCEPT ![i].at = IF loads[i].cancelled THEN "returned" ELSE "fetch"]
                  /\ UNCHANGED <<srtError, written, dirty, srtText>>
             ELSE Catch(i)
    /\ UNCHANGED <<pc, raw, norm, norm2, doc, cues, replaced, replacedText, cuesReplaced,
                   positionMs, result, activeIndex, repeatLine, lastRepeatRef, deps, seek, history,
                   captured, entry, mounted>>

\* await fetch(uri) settles; response.text() is called.
FetchSettles ==
    /\ \E i \in 1..Len(loads), ok \in BOOLEAN :
          /\ loads[i].at = "fetch"
          /\ IF ok
             THEN /\ loads' = [loads EXCEPT ![i].at = "text"]
                  /\ UNCHANGED <<srtError, written, dirty, srtText>>
             ELSE Catch(i)
    /\ UNCHANGED <<pc, raw, norm, norm2, doc, cues, replaced, replacedText, cuesReplaced,
                   positionMs, result, activeIndex, repeatLine, lastRepeatRef, deps, seek, history,
                   captured, entry, mounted>>

\* await response.text() settles; if (!cancelled) setSrtText(text).
TextSettles ==
    /\ \E i \in 1..Len(loads), ok \in BOOLEAN :
          /\ loads[i].at = "text"
          /\ IF ok
             THEN IF Writes(loads[i])
                  THEN /\ srtText' = TextOf(loads[i].srt)
                       /\ written' = [load |-> i, cleanedUp |-> loads[i].cleanedUp, what |-> "srtText"]
                       /\ loads' = [loads EXCEPT ![i].at = "wrote"]
                       /\ dirty' = (dirty \/ srtText' # srtText)
                       /\ UNCHANGED srtError
                  ELSE /\ loads' = [loads EXCEPT ![i].at = "dropped"]
                       /\ UNCHANGED <<srtError, written, dirty, srtText>>
             ELSE Catch(i)
    /\ UNCHANGED <<pc, raw, norm, norm2, doc, cues, replaced, replacedText, cuesReplaced,
                   positionMs, result, activeIndex, repeatLine, lastRepeatRef, deps, seek, history,
                   captured, entry, mounted>>

NextLoad == ChangeEntry \/ Unmount \/ Render \/ EffectsLoad \/ DownloadSettles \/ FetchSettles \/ TextSettles

SpecLoad == InitLoad /\ [][NextLoad]_vars

(***************************************************************************)
(* C11                                                                     *)
(***************************************************************************)
\* The cues of the text of each entry.
LoadedCues == [e \in Entries |-> parseSrt(TextOf(e))]

\* No load has written srtText or srtError after the cleanup of its effect.
NoWriteAfterCleanup == written # Nothing => ~written.cleanedUp

\* The entry of the last render.
RenderedEntry == IF captured # Nothing THEN captured.entry ELSE Live.srt

\* C11 as claimed: a load whose effect has been cleaned up never writes srtText or
\* srtError; so the cues in use are at all times either none or the parse of the
\* text loaded for the entry rendered, never those of a load before.
C11_Claimed_CuesOfCurrentEntry ==
    /\ NoWriteAfterCleanup
    /\ (mounted /\ loads # <<>>) => cues \in {<<>>, LoadedCues[RenderedEntry]}

\* C11: a load whose effect has been cleaned up never writes srtText or srtError; so
\* srtText is at all times either empty or the text loaded by the run of the effect
\* that has not been cleaned up, and whenever no state update waits for its render
\* and no effect waits to run, srtText is either empty or the text loaded for the
\* entry and the cues in use are either none or the parse of that text.  The render
\* in which the entry changes still uses the cues of the text of the entry before,
\* and they stay in use until the setSrtText("") of the new run of the effect is
\* rendered.
C11_CuesOfCurrentEntryOnceReset ==
    /\ NoWriteAfterCleanup
    /\ (mounted /\ loads # <<>>) =>
          /\ srtText \in {<<>>, TextOf(Live.srt)}
          /\ (~dirty /\ captured = Nothing) =>
                /\ Live.srt = entry
                /\ cues \in {<<>>, LoadedCues[entry]}

\* The load of an entry before came to its last await after the cleanup of its effect
\* and wrote nothing; the load of the entry rendered has written its text, and the
\* cues in use are the parse of it.
C11_Witness ==
    /\ mounted /\ ~dirty /\ captured = Nothing /\ Len(loads) >= 2
    /\ \E i \in 1..(Len(loads) - 1) :
          loads[i].at = "dropped" /\ loads[i].cleanedUp /\ loads[i].srt # Live.srt
    /\ Live.at = "wrote"
    /\ cues = LoadedCues[entry] /\ cues # <<>>

=============================================================================
